---- MODULE Spec2Model ----
(***************************************************************************)
(* The two Conan recipes of mrizaln/qoipp, src/example/conanfile.py and    *)
(* src/test/conanfile.py.  Each file imports ConanFile and cmake_layout,   *)
(* and defines one class Recipe(ConanFile) with three list attributes and  *)
(* a layout hook whose body is the single statement cmake_layout(self).    *)
(*                                                                         *)
(* A string whose characters matter (an entry of requires) is a sequence   *)
(* of one-character strings; a path is a sequence of its components.       *)
(***************************************************************************)
EXTENDS Integers, Sequences, FiniteSets, TLC

\* How many times the external tool invokes a layout hook in one behaviour.
MaxCalls == 3

Recipes == {"example", "test"}

Other(r) == IF r = "example" THEN "test" ELSE "example"

(***************************************************************************)
(* Module-level statements of each file.                                   *)
(***************************************************************************)
ExampleModule ==
    << [kind |-> "import", module |-> "conan",             name |-> "ConanFile"],
       [kind |-> "import", module |-> "conan.tools.cmake", name |-> "cmake_layout"],
       [kind |-> "class",  module |-> "",                  name |-> "Recipe"] >>

TestModule ==
    << [kind |-> "import", module |-> "conan",             name |-> "ConanFile"],
       [kind |-> "import", module |-> "conan.tools.cmake", name |-> "cmake_layout"],
       [kind |-> "class",  module |-> "",                  name |-> "Recipe"] >>

Module(r) == IF r = "example" THEN ExampleModule ELSE TestModule

\* The module each file is importable as (its directory under the repository).
ModuleName(r) == r

(***************************************************************************)
(* The class attributes.                                                   *)
(***************************************************************************)
ExampleSettings == <<"os", "compiler", "build_type", "arch">>

\* The settings with the arch axis left out.
TestSettingsNoArch == <<"os", "compiler", "build_type">>

TestSettings == <<"os", "compiler", "build_type", "arch">>

ExampleGenerators == <<"CMakeToolchain", "CMakeDeps">>

\* The generators in the other order.
TestGeneratorsSwapped == <<"CMakeDeps", "CMakeToolchain">>

TestGenerators == <<"CMakeToolchain", "CMakeDeps">>

\* The requires with the '/' of cli11/2.4.1 dropped.
ExampleRequiresNoSlash ==
    << <<"f","m","t","/","1","0",".","2",".","1">>,
       <<"p","e","r","l","i","n","n","o","i","s","e","/","3",".","0",".","0">>,
       <<"r","a","n","g","e","-","v","3","/","0",".","1","2",".","0">>,
       <<"s","t","b","/","c","c","i",".","2","0","2","3","0","9","2","0">>,
       <<"c","l","i","1","1","2",".","4",".","1">> >>

\* The requires with fmt listed a second time, at another version.
ExampleRequiresTwoFmt ==
    << <<"f","m","t","/","1","0",".","2",".","1">>,
       <<"p","e","r","l","i","n","n","o","i","s","e","/","3",".","0",".","0">>,
       <<"r","a","n","g","e","-","v","3","/","0",".","1","2",".","0">>,
       <<"s","t","b","/","c","c","i",".","2","0","2","3","0","9","2","0">>,
       <<"f","m","t","/","1","1",".","0",".","2">> >>

ExampleRequires ==
    << <<"f","m","t","/","1","0",".","2",".","1">>,
       <<"p","e","r","l","i","n","n","o","i","s","e","/","3",".","0",".","0">>,
       <<"r","a","n","g","e","-","v","3","/","0",".","1","2",".","0">>,
       <<"s","t","b","/","c","c","i",".","2","0","2","3","0","9","2","0">>,
       <<"c","l","i","1","1","/","2",".","4",".","1">> >>

\* The requires with fmt pinned to 10.2.0 instead of 10.2.1.
TestRequiresOlderFmt ==
    << <<"f","m","t","/","1","0",".","2",".","0">>,
       <<"b","o","o","s","t","-","e","x","t","-","u","t","/","1",".","1",".","9">>,
       <<"r","a","n","g","e","-","v","3","/","0",".","1","2",".","0">>,
       <<"s","t","b","/","c","c","i",".","2","0","2","3","0","9","2","0">> >>

TestRequires ==
    << <<"f","m","t","/","1","0",".","2",".","1">>,
       <<"b","o","o","s","t","-","e","x","t","-","u","t","/","1",".","1",".","9">>,
       <<"r","a","n","g","e","-","v","3","/","0",".","1","2",".","0">>,
       <<"s","t","b","/","c","c","i",".","2","0","2","3","0","9","2","0">> >>

(***************************************************************************)
(* The body of each layout hook, a statement list.                         *)
(***************************************************************************)
\* A hook that calls cmake_layout twice.
ExampleLayoutBodyTwice ==
    << [kind |-> "call", callee |-> "cmake_layout", args |-> <<"self">>],
       [kind |-> "call", callee |-> "cmake_layout", args |-> <<"self">>] >>

\* A hook that validates and raises before it delegates.
ExampleLayoutBodyRaises ==
    << [kind |-> "raise", callee |-> "ConanInvalidConfiguration", args |-> <<>>],
       [kind |-> "call", callee |-> "cmake_layout", args |-> <<"self">>] >>

ExampleLayoutBody ==
    << [kind |-> "call", callee |-> "cmake_layout", args |-> <<"self">>] >>

TestLayoutBody ==
    << [kind |-> "call", callee |-> "cmake_layout", args |-> <<"self">>] >>

(***************************************************************************)
(* The class objects the two class statements build: the bases and the     *)
(* class namespace.                                                        *)
(***************************************************************************)
\* The class with a build method added.
ExampleRecipeWithBuild ==
    [ bases |-> <<"ConanFile">>,
      dict  |-> [ settings   |-> ExampleSettings,
                  generators |-> ExampleGenerators,
                  requires   |-> ExampleRequires,
                  layout     |-> ExampleLayoutBody,
                  build      |-> << >> ] ]

\* The class derived from the Recipe of the test file.
ExampleRecipeOfTest ==
    [ bases |-> <<"test.Recipe">>,
      dict  |-> [ settings   |-> ExampleSettings,
                  generators |-> ExampleGenerators,
                  requires   |-> ExampleRequires,
                  layout     |-> ExampleLayoutBody ] ]

ExampleRecipe ==
    [ bases |-> <<"ConanFile">>,
      dict  |-> [ settings   |-> ExampleSettings,
                  generators |-> ExampleGenerators,
                  requires   |-> ExampleRequires,
                  layout     |-> ExampleLayoutBody ] ]

TestRecipe ==
    [ bases |-> <<"ConanFile">>,
      dict  |-> [ settings   |-> TestSettings,
                  generators |-> TestGenerators,
                  requires   |-> TestRequires,
                  layout     |-> TestLayoutBody ] ]

VARIABLES
    cls,      \* cls[r]: the class object Recipe of file r (bases, namespace)
    folders,  \* folders[r]: the folders of the recipe object of r
    errors,   \* the exceptions that left a layout hook: recipe and origin
    calls     \* the calls made so far, in order, with the profile of each

vars == <<cls, folders, errors, calls>>


(***************************************************************************)
(* cmake_layout, the function of conan.tools.cmake both files import.  The *)
(* profile is the external tool's input: the value of the build_type       *)
(* setting (or none) and whether the CMake generator is multi-config.      *)
(***************************************************************************)
BuildTypes == {"Debug", "Release", "undefined"}

Profiles == [build_type : BuildTypes, multi : BOOLEAN]

NoFolders == [source |-> << >>, build |-> << >>, generators |-> << >>]

InSeq(x, s) == \E i \in DOMAIN s : s[i] = x

\* The outcome of cmake_layout(conanfile) on a recipe object whose folders
\* are f: the folders afterwards, and whether it raised.
CmakeLayout(conanfile, f, profile) ==
    IF profile.build_type = "undefined"
       \/ ~InSeq("build_type", conanfile.dict.settings)
    THEN [raised |-> TRUE, folders |-> [f EXCEPT !.source = <<".">>]]
    ELSE LET build == IF profile.multi THEN <<"build">>
                      ELSE <<"build", profile.build_type>>
         IN  [raised  |-> FALSE,
              folders |-> [source     |-> <<".">>,
                           build      |-> build,
                           generators |-> Append(build, "generators")]]

(***************************************************************************)
(* Running a hook body.  A frame holds the folders of the recipe object,   *)
(* the origin of the exception in flight ("none" when there is none) and   *)
(* the calls made.                                                         *)
(***************************************************************************)
ExecStmt(s, r, c, profile, st) ==
    CASE s.kind = "call" /\ s.callee = "cmake_layout" ->
           LET out == CmakeLayout(c, st.folders, profile)
           IN  [folders |-> out.folders,
                raised  |-> IF out.raised THEN "cmake_layout" ELSE "none",
                events  |-> Append(st.events,
                                   [fn |-> "cmake_layout", self |-> r,
                                    profile |-> profile])]
      [] s.kind = "raise" -> [st EXCEPT !.raised = "recipe"]
      [] OTHER -> st

RECURSIVE ExecBody(_, _, _, _, _, _)
ExecBody(body, i, r, c, profile, st) ==
    IF i > Len(body) \/ st.raised # "none"
    THEN st
    ELSE ExecBody(body, i + 1, r, c, profile,
                  ExecStmt(body[i], r, c, profile, st))

\* One call of layout(self) on the recipe object of r, of class c.
CallLayout(r, c, f, profile) ==
    ExecBody(c.dict.layout, 1, r, c, profile,
             [folders |-> f,
              raised  |-> "none",
              events  |-> << [fn |-> "layout", self |-> r,
                              profile |-> profile] >>])

LayoutCalls(log) == {i \in DOMAIN log : log[i].fn = "layout"}

Init ==
    /\ cls = [r \in Recipes |-> IF r = "example" THEN ExampleRecipe
                                ELSE TestRecipe]
    /\ folders = [r \in Recipes |-> NoFolders]
    /\ errors = {}
    /\ calls = << >>

\* A hook that keeps its folders in one place for both recipes.
LayoutShared(r) ==
    /\ Cardinality(LayoutCalls(calls)) < MaxCalls
    /\ "layout" \in DOMAIN cls[r].dict
    /\ \E profile \in Profiles :
         LET out == CallLayout(r, cls[r], folders[r], profile)
         IN  /\ folders' = [q \in Recipes |-> out.folders]
             /\ errors' = IF out.raised = "none" THEN errors
                          ELSE errors \cup {[recipe |-> r,
                                             origin |-> out.raised]}
             /\ calls' = calls \o out.events
    /\ UNCHANGED cls

\* The external tool calls the layout hook of recipe r under some profile.
Layout(r) ==
    /\ Cardinality(LayoutCalls(calls)) < MaxCalls
    /\ "layout" \in DOMAIN cls[r].dict
    /\ \E profile \in Profiles :
         LET out == CallLayout(r, cls[r], folders[r], profile)
         IN  /\ folders' = [folders EXCEPT ![r] = out.folders]
             /\ errors' = IF out.raised = "none" THEN errors
                          ELSE errors \cup {[recipe |-> r,
                                             origin |-> out.raised]}
             /\ calls' = calls \o out.events
    /\ UNCHANGED cls

LayoutExample == Layout("example")

LayoutTest == Layout("test")

Next == LayoutExample \/ LayoutTest

Spec == Init /\ [][Next]_vars

(***************************************************************************)
(* Reading a requires entry as name/version.                               *)
(***************************************************************************)
Slashes(s) == {i \in DOMAIN s : s[i] = "/"}

IsNameVersion(s) ==
    /\ Cardinality(Slashes(s)) = 1
    /\ \A p \in Slashes(s) : 1 < p /\ p < Len(s)

FirstSlash(s) ==
    IF Slashes(s) = {} THEN Len(s) + 1
    ELSE CHOOSE p \in Slashes(s) : \A q \in Slashes(s) : p <= q

NameOf(s) == SubSeq(s, 1, FirstSlash(s) - 1)

VersionOf(s) == SubSeq(s, FirstSlash(s) + 1, Len(s))

Requires(r) == cls[r].dict.requires

Names(r) == {NameOf(Requires(r)[i]) : i \in DOMAIN Requires(r)}

CalledOn(r) == \E i \in DOMAIN calls : calls[i].fn = "layout" /\ calls[i].self = r

BothCalled == \A r \in Recipes : CalledOn(r)

\* C1: in both recipes every entry of requires is a name/version string:
\* exactly one '/', with a non-empty name before it and a non-empty version
\* after it.
C1_RequiresAreNameVersion ==
    \A r \in Recipes : \A i \in DOMAIN Requires(r) :
        /\ IsNameVersion(Requires(r)[i])
        /\ NameOf(Requires(r)[i]) # << >>
        /\ VersionOf(Requires(r)[i]) # << >>

C1_Witness ==
    /\ BothCalled
    /\ Len(Requires("example")) = 5
    /\ NameOf(Requires("example")[5]) = <<"c","l","i","1","1">>
    /\ VersionOf(Requires("example")[5]) = <<"2",".","4",".","1">>
    /\ NameOf(Requires("test")[2])
         = <<"b","o","o","s","t","-","e","x","t","-","u","t">>
    /\ VersionOf(Requires("test")[2]) = <<"1",".","1",".","9">>

Axes == {"os", "compiler", "build_type", "arch"}

Range(s) == {s[i] : i \in DOMAIN s}

\* C2: the settings of each recipe list exactly the four axes os, compiler,
\* build_type and arch, none missing, added or repeated, and the two recipes
\* declare the same axes.
C2_SettingsAreTheFourAxes ==
    /\ \A r \in Recipes :
          /\ Range(cls[r].dict.settings) = Axes
          /\ Len(cls[r].dict.settings) = Cardinality(Axes)
    /\ Range(cls["example"].dict.settings) = Range(cls["test"].dict.settings)

C2_Witness ==
    /\ BothCalled
    /\ \A r \in Recipes : InSeq("arch", cls[r].dict.settings)
    /\ \E r \in Recipes : folders[r].build = <<"build", "Release">>

\* The calls a step adds to the log.
NewCalls == SubSeq(calls', Len(calls) + 1, Len(calls'))

LayoutStep(r) ==
    /\ Len(calls') > Len(calls)
    /\ calls'[Len(calls) + 1].fn = "layout"
    /\ calls'[Len(calls) + 1].self = r

\* C3: one call of layout delegates exactly once to cmake_layout, with the
\* recipe itself, and leaves settings, generators and requires of the recipe
\* as they were (same entries, same order).
C3_LayoutOnlyDelegates ==
    [][\A r \in Recipes : LayoutStep(r) =>
          /\ Cardinality(LayoutCalls(NewCalls)) = 1
          /\ Cardinality({i \in DOMAIN NewCalls :
                              NewCalls[i].fn = "cmake_layout"}) = 1
          /\ \A i \in DOMAIN NewCalls : NewCalls[i].self = r
          /\ cls'[r].dict.settings = cls[r].dict.settings
          /\ cls'[r].dict.generators = cls[r].dict.generators
          /\ cls'[r].dict.requires = cls[r].dict.requires]_vars

C3_Witness ==
    /\ Len(calls) = 4
    /\ calls[1].fn = "layout" /\ calls[1].self = "example"
    /\ calls[2].fn = "cmake_layout" /\ calls[2].self = "example"
    /\ calls[3].fn = "layout" /\ calls[3].self = "test"
    /\ calls[4].fn = "cmake_layout" /\ calls[4].self = "test"
    /\ folders["example"].generators = <<"build", "Debug", "generators">>
    /\ Requires("example") = ExampleRequires

Recognized == {"settings", "generators", "requires", "layout"}

\* C4: each recipe defines the four recognized attributes settings,
\* generators, requires and layout, and nothing else.
C4_OnlyRecognizedAttributes ==
    \A r \in Recipes : DOMAIN cls[r].dict = Recognized

C4_Witness ==
    /\ BothCalled
    /\ \A r \in Recipes : \A a \in Recognized : a \in DOMAIN cls[r].dict
    /\ \A r \in Recipes : folders[r] # NoFolders

FailingKinds == {"raise", "assert", "if", "try"}

\* C5: no failure is detected or reported by the recipes: no hook body holds
\* a raise, an assertion, a branch or a handler, and every exception that
\* leaves a layout hook was raised inside cmake_layout.
C5_ErrorsAreExternal ==
    /\ \A r \in Recipes : \A i \in DOMAIN cls[r].dict.layout :
          cls[r].dict.layout[i].kind \notin FailingKinds
    /\ \A e \in errors : e.origin = "cmake_layout"

C5_Witness ==
    /\ \A r \in Recipes : [recipe |-> r, origin |-> "cmake_layout"] \in errors
    /\ \E i \in DOMAIN calls : calls[i].profile.build_type = "undefined"

\* C6: generators of each recipe is CMakeToolchain followed by CMakeDeps,
\* each once, and is the same list in both recipes.
C6_GeneratorsAreCMake ==
    /\ \A r \in Recipes :
          cls[r].dict.generators = <<"CMakeToolchain", "CMakeDeps">>
    /\ cls["example"].dict.generators = cls["test"].dict.generators

C6_Witness ==
    /\ BothCalled
    /\ \A r \in Recipes : Len(cls[r].dict.generators) = 2
    /\ \E r \in Recipes : folders[r].generators = <<"build", "generators">>

(***************************************************************************)
(* The recipe of r processed alone: the layout calls of the log made on r, *)
(* in their order and with their profiles, from the initial state.         *)
(***************************************************************************)
RECURSIVE Alone(_, _, _, _)
Alone(r, log, i, st) ==
    IF i > Len(log) THEN st
    ELSE IF log[i].fn = "layout" /\ log[i].self = r
         THEN LET out == CallLayout(r, cls[r], st.folders, log[i].profile)
              IN  Alone(r, log, i + 1,
                        [folders |-> out.folders,
                         errors  |-> IF out.raised = "none" THEN st.errors
                                     ELSE st.errors \cup
                                          {[recipe |-> r,
                                            origin |-> out.raised]}])
         ELSE Alone(r, log, i + 1, st)

ImportsOther(r) ==
    \E i \in DOMAIN Module(r) :
        /\ Module(r)[i].kind = "import"
        /\ Module(r)[i].module = ModuleName(Other(r))

\* C7: the two recipes do not interact: neither file imports the other, and
\* under every interleaving of layout calls each recipe ends in the state it
\* would have reached had it been processed alone.
C7_RecipesDoNotInteract ==
    \A r \in Recipes :
        /\ ~ImportsOther(r)
        /\ LET alone == Alone(r, calls, 1,
                              [folders |-> NoFolders, errors |-> {}])
           IN  /\ folders[r] = alone.folders
               /\ {e \in errors : e.recipe = r} = alone.errors

C7_Witness ==
    /\ Len(calls) = 6
    /\ calls[1].self = "example" /\ calls[3].self = "test"
    /\ calls[5].self = "example"
    /\ folders["example"].build = <<"build", "Debug">>
    /\ folders["test"].build = <<"build">>

Repository == {"example.Recipe", "test.Recipe"}

ImportedNames(r) ==
    {Module(r)[i].name : i \in {j \in DOMAIN Module(r) :
                                    Module(r)[j].kind = "import"}}

NoControlFlow(r) ==
    \A i \in DOMAIN cls[r].dict.layout :
        cls[r].dict.layout[i].kind \notin {"if", "for", "while", "try", "match"}

NoGlobalState(r) ==
    /\ \A i \in DOMAIN Module(r) : Module(r)[i].kind \in {"import", "class"}
    /\ \A i \in DOMAIN cls[r].dict.layout :
          cls[r].dict.layout[i].kind \notin {"global", "assign"}

\* Every call a hook makes names a function the file imports.
NoDispatchInside(r) ==
    \A i \in DOMAIN cls[r].dict.layout :
        cls[r].dict.layout[i].kind = "call" =>
            cls[r].dict.layout[i].callee \in ImportedNames(r)

\* C8: no recipe has a branch or loop, module-level mutable state or a call
\* dispatched on the receiver; each recipe derives from exactly one class,
\* ConanFile of the external tool, and from no class of this repository.
C8_NoControlFlowOneExternalBase ==
    \A r \in Recipes :
        /\ NoControlFlow(r)
        /\ NoGlobalState(r)
        /\ NoDispatchInside(r)
        /\ cls[r].bases = <<"ConanFile">>
        /\ Range(cls[r].bases) \cap Repository = {}

C8_Witness ==
    /\ BothCalled
    /\ \A r \in Recipes : "ConanFile" \in ImportedNames(r)
    /\ \A r \in Recipes : InSeq("ConanFile", cls[r].bases)

\* C8 as stated: no recipe has a branch or loop, derives from another class,
\* uses module-level mutable state or relies on dynamic dispatch.
C8_Original ==
    \A r \in Recipes :
        /\ NoControlFlow(r)
        /\ NoGlobalState(r)
        /\ NoDispatchInside(r)
        /\ cls[r].bases = << >>

\* C9: a library both recipes require is pinned to the same version in
\* both.
C9_SharedLibrariesSameVersion ==
    \A i \in DOMAIN Requires("example") : \A j \in DOMAIN Requires("test") :
        NameOf(Requires("example")[i]) = NameOf(Requires("test")[j])
            => VersionOf(Requires("example")[i])
                 = VersionOf(Requires("test")[j])

C9_Witness ==
    /\ BothCalled
    /\ Names("example") \cap Names("test")
         = { <<"f","m","t">>, <<"r","a","n","g","e","-","v","3">>,
             <<"s","t","b">> }
    /\ VersionOf(Requires("test")[1]) = <<"1","0",".","2",".","1">>

\* C10: within each recipe no library name occurs twice in requires.
C10_NoLibraryTwice ==
    \A r \in Recipes : \A i, j \in DOMAIN Requires(r) :
        NameOf(Requires(r)[i]) = NameOf(Requires(r)[j]) => i = j

C10_Witness ==
    /\ BothCalled
    /\ Cardinality(Names("example")) = 5
    /\ Cardinality(Names("test")) = 4

====
